---------------------------- MODULE Spec2Model ----------------------------
(***************************************************************************)
(* The input classifier and extractor of the demo UI: the exported         *)
(* processInput of src/agents/processor.ts, and the App component of       *)
(* src/App.tsx with its form state and its own inlined copy of the logic.  *)
(*                                                                         *)
(* A JavaScript string is a sequence of one-character strings, so that     *)
(* startsWith, slice, trim, split, join, toLowerCase, includes and         *)
(* JSON.parse work on characters.  A JavaScript value is a record of one   *)
(* shape (JsValue below).                                                  *)
(***************************************************************************)
EXTENDS Integers, Sequences, FiniteSets, TLC

VARIABLES
    input,          \* App state: the textarea's text
    result,         \* App state: null, a ProcessingResult or {error: ...}
    loading,        \* App state
    selectedFile,   \* App state: null or the chosen File
    last,           \* the input and selectedFile the last Process run closed over
    now,            \* the wall clock that new Date() reads
    arg,            \* the argument of a call of the exported processInput
    ret             \* what that call produced: nothing yet, a return or a throw

vars == <<input, result, loading, selectedFile, last, now, arg, ret>>

-----------------------------------------------------------------------------
(* Bounds of the model *)

\* the largest number of lines of a generated text
MaxLines == 3

\* the last instant of the wall clock
MaxClock == 1

-----------------------------------------------------------------------------
(* Strings *)

Min(S) == CHOOSE x \in S : \A y \in S : x <= y

Max(S) == CHOOSE x \in S : \A y \in S : x >= y

UpperLetters ==
    << "A", "B", "C", "D", "E", "F", "G", "H", "I", "J", "K", "L", "M",
       "N", "O", "P", "Q", "R", "S", "T", "U", "V", "W", "X", "Y", "Z" >>

LowerLetters ==
    << "a", "b", "c", "d", "e", "f", "g", "h", "i", "j", "k", "l", "m",
       "n", "o", "p", "q", "r", "s", "t", "u", "v", "w", "x", "y", "z" >>

DigitChars == << "0", "1", "2", "3", "4", "5", "6", "7", "8", "9" >>

IsDigit(c) == \E i \in 1..10 : DigitChars[i] = c

DigitVal(c) == (CHOOSE i \in 1..10 : DigitChars[i] = c) - 1

\* String.prototype.startsWith
StartsWith(s, p) == Len(s) >= Len(p) /\ SubSeq(s, 1, Len(p)) = p

\* String.prototype.includes
Includes(s, p) == \E i \in 0..(Len(s) - Len(p)) : SubSeq(s, i + 1, i + Len(p)) = p

ToLowerChar(c) ==
    IF \E i \in 1..26 : UpperLetters[i] = c
    THEN LowerLetters[CHOOSE i \in 1..26 : UpperLetters[i] = c]
    ELSE c

\* String.prototype.toLowerCase, on the letters A-Z (the texts modelled hold no others)
ToLowerCase(s) == [i \in 1..Len(s) |-> ToLowerChar(s[i])]

\* String.prototype.slice(n), 0 <= n
Slice(s, n) == SubSeq(s, n + 1, Len(s))

\* the white space String.prototype.trim removes, among the characters modelled
IsTrimSpace(c) == c \in {" ", "\t", "\n", "\r", "\f"}

\* String.prototype.trim
Trim(s) ==
    LET keep == {i \in 1..Len(s) : ~IsTrimSpace(s[i])}
    IN  IF keep = {} THEN << >> ELSE SubSeq(s, Min(keep), Max(keep))

\* String.prototype.trimStart
TrimStart(s) ==
    LET keep == {i \in 1..Len(s) : ~IsTrimSpace(s[i])}
    IN  IF keep = {} THEN << >> ELSE SubSeq(s, Min(keep), Len(s))

\* String.prototype.split('\n'): the pieces between the separators, empty ones kept
Split(s, sep) ==
    LET at == SelectSeq([i \in 1..Len(s) |-> i], LAMBDA i : s[i] = sep)
        cut == <<0>> \o at \o <<Len(s) + 1>>
    IN  [k \in 1..(Len(cut) - 1) |-> SubSeq(s, cut[k] + 1, cut[k + 1] - 1)]

RECURSIVE Join(_, _)
\* Array.prototype.join
Join(parts, sep) ==
    IF parts = << >> THEN << >>
    ELSE IF Len(parts) = 1 THEN parts[1]
    ELSE parts[1] \o sep \o Join(Tail(parts), sep)

\* the hit of lines.find(l => l.startsWith(p)): the index of the first line that
\* starts with p, 0 for none
FindPrefixed(lines, p) ==
    LET hits == {i \in 1..Len(lines) : StartsWith(lines[i], p)}
    IN  IF hits = {} THEN 0 ELSE Min(hits)

-----------------------------------------------------------------------------
(* JavaScript values: one record shape for undefined, null, booleans,       *)
(* numbers (m * 10^e, m not a multiple of 10 unless 0), strings, arrays     *)
(* (kids with empty keys) and objects (kids in insertion order).            *)

JsValue(t, b, m, e, s, kids) == [t |-> t, b |-> b, m |-> m, e |-> e, s |-> s, kids |-> kids]

JsUndefined == JsValue("undefined", FALSE, 0, 0, << >>, << >>)

JsNull == JsValue("null", FALSE, 0, 0, << >>, << >>)

JsBool(b) == JsValue("boolean", b, 0, 0, << >>, << >>)

RECURSIVE Normalise(_, _)
Normalise(m, e) ==
    IF m = 0 THEN <<0, 0>>
    ELSE IF m % 10 = 0 THEN Normalise(m \div 10, e + 1)
    ELSE <<m, e>>

JsNum(m, e) == JsValue("number", FALSE, Normalise(m, e)[1], Normalise(m, e)[2], << >>, << >>)

JsStr(s) == JsValue("string", FALSE, 0, 0, s, << >>)

JsArr(items) ==
    JsValue("array", FALSE, 0, 0, << >>, [i \in 1..Len(items) |-> [k |-> << >>, v |-> items[i]]])

JsObj(kids) == JsValue("object", FALSE, 0, 0, << >>, kids)

Prop(k, v) == [k |-> k, v |-> v]

HasKey(o, k) == \E i \in 1..Len(o.kids) : o.kids[i].k = k

\* o[k]: undefined when o has no such property
Get(o, k) ==
    IF o.t = "object" /\ HasKey(o, k)
    THEN o.kids[CHOOSE i \in 1..Len(o.kids) : o.kids[i].k = k].v
    ELSE JsUndefined

\* o[k] = v on a list of properties: a key already there keeps its place
Put(kids, k, v) ==
    IF \E i \in 1..Len(kids) : kids[i].k = k
    THEN [i \in 1..Len(kids) |-> IF kids[i].k = k THEN Prop(k, v) ELSE kids[i]]
    ELSE Append(kids, Prop(k, v))

-----------------------------------------------------------------------------
(* JSON.parse.  Each parser returns [ok, v, pos]: whether it matched, the   *)
(* value, and the index after the text matched.                             *)

ParseFail == [ok |-> FALSE, v |-> JsUndefined, pos |-> 0]

ParseOk(v, pos) == [ok |-> TRUE, v |-> v, pos |-> pos]

\* JSON's white space
IsJsonSpace(c) == c \in {" ", "\t", "\n", "\r"}

\* the first index from i on whose character is no white space, Len(s) + 1 for none
SkipWs(s, i) ==
    LET stop == {j \in i..Len(s) : ~IsJsonSpace(s[j])}
    IN  IF stop = {} THEN Len(s) + 1 ELSE Min(stop)

\* the first index from i on whose character is no digit, Len(s) + 1 for none
DigitsEnd(s, i) ==
    LET stop == {j \in i..Len(s) : ~IsDigit(s[j])}
    IN  IF stop = {} THEN Len(s) + 1 ELSE Min(stop)

CharAt(s, i) == IF i >= 1 /\ i <= Len(s) THEN s[i] ELSE ""

RECURSIVE ToInt(_)
ToInt(ds) ==
    IF ds = << >> THEN 0
    ELSE ToInt(SubSeq(ds, 1, Len(ds) - 1)) * 10 + DigitVal(ds[Len(ds)])

\* number: -? (0 | [1-9][0-9]*) (. [0-9]+)? ([eE] [+-]? [0-9]+)?
ParseNumber(s, i) ==
    LET neg     == CharAt(s, i) = "-"
        a       == IF neg THEN i + 1 ELSE i
        b       == DigitsEnd(s, a)
        intOk   == b > a /\ (s[a] = "0" => b = a + 1)
        hasFrac == CharAt(s, b) = "."
        c       == IF hasFrac THEN DigitsEnd(s, b + 1) ELSE b
        fracOk  == hasFrac => c > b + 1
        hasExp  == CharAt(s, c) \in {"e", "E"}
        d       == IF CharAt(s, c + 1) \in {"+", "-"} THEN c + 2 ELSE c + 1
        f       == IF hasExp THEN DigitsEnd(s, d) ELSE c
        expOk   == hasExp => f > d
        mant    == ToInt(SubSeq(s, a, b - 1) \o (IF hasFrac THEN SubSeq(s, b + 1, c - 1) ELSE << >>))
        scale   == IF hasFrac THEN c - b - 1 ELSE 0
        expo    == IF ~hasExp THEN 0
                   ELSE IF CharAt(s, c + 1) = "-" THEN 0 - ToInt(SubSeq(s, d, f - 1))
                   ELSE ToInt(SubSeq(s, d, f - 1))
    IN  IF intOk /\ fracOk /\ expOk
        THEN ParseOk(JsNum(IF neg THEN 0 - mant ELSE mant, expo - scale), f)
        ELSE ParseFail

IsHex(c) == IsDigit(c) \/ c \in {"a", "b", "c", "d", "e", "f", "A", "B", "C", "D", "E", "F"}

\* the character an escape letter stands for; a backspace has no spelling in a
\* TLA+ string and is the token "\\b"
Unescape(c) ==
    CASE c = "n" -> "\n"
      [] c = "t" -> "\t"
      [] c = "r" -> "\r"
      [] c = "f" -> "\f"
      [] c = "b" -> "\\b"
      [] OTHER   -> c

RECURSIVE ScanString(_, _, _)
\* the rest of a string literal, from index j, acc the characters read so far.
\* A \uXXXX escape is kept as one token, "\\u" and its four digits.
ScanString(s, j, acc) ==
    IF j > Len(s) THEN ParseFail
    ELSE IF s[j] = "\"" THEN ParseOk(JsStr(acc), j + 1)
    ELSE IF s[j] = "\\"
         THEN IF CharAt(s, j + 1) \in {"\"", "\\", "/", "b", "f", "n", "r", "t"}
              THEN ScanString(s, j + 2, Append(acc, Unescape(s[j + 1])))
              ELSE IF CharAt(s, j + 1) = "u" /\ j + 5 <= Len(s)
                      /\ \A k \in (j + 2)..(j + 5) : IsHex(s[k])
              THEN ScanString(s, j + 6,
                       Append(acc, "\\u" \o s[j + 2] \o s[j + 3] \o s[j + 4] \o s[j + 5]))
              ELSE ParseFail
    ELSE IF s[j] \in {"\n", "\t", "\r", "\f", "\\b"} THEN ParseFail
    ELSE ScanString(s, j + 1, Append(acc, s[j]))

ParseString(s, i) == IF CharAt(s, i) = "\"" THEN ScanString(s, i + 1, << >>) ELSE ParseFail

WordAt(s, i, w) == SubSeq(s, i, i + Len(w) - 1) = w

RECURSIVE ParseValue(_, _)
RECURSIVE ParseMembers(_, _, _)
RECURSIVE ParseElements(_, _, _)

\* the members of an object from index i (a key is due), kids those read so far
ParseMembers(s, i, kids) ==
    LET key   == ParseString(s, SkipWs(s, i))
        colon == IF key.ok THEN SkipWs(s, key.pos) ELSE 0
        val   == IF key.ok /\ CharAt(s, colon) = ":" THEN ParseValue(s, colon + 1) ELSE ParseFail
        after == IF val.ok THEN SkipWs(s, val.pos) ELSE 0
        all   == Put(kids, key.v.s, val.v)
    IN  IF ~val.ok THEN ParseFail
        ELSE IF CharAt(s, after) = "," THEN ParseMembers(s, after + 1, all)
        ELSE IF CharAt(s, after) = "}" THEN ParseOk(JsObj(all), after + 1)
        ELSE ParseFail

\* the elements of an array from index i (a value is due), items those read so far
ParseElements(s, i, items) ==
    LET val   == ParseValue(s, i)
        after == IF val.ok THEN SkipWs(s, val.pos) ELSE 0
        all   == Append(items, val.v)
    IN  IF ~val.ok THEN ParseFail
        ELSE IF CharAt(s, after) = "," THEN ParseElements(s, after + 1, all)
        ELSE IF CharAt(s, after) = "]" THEN ParseOk(JsArr(all), after + 1)
        ELSE ParseFail

\* one JSON value, white space before it skipped
ParseValue(s, i) ==
    LET j == SkipWs(s, i)
        c == CharAt(s, j)
    IN  CASE c = "{" ->
               IF CharAt(s, SkipWs(s, j + 1)) = "}"
               THEN ParseOk(JsObj(<< >>), SkipWs(s, j + 1) + 1)
               ELSE ParseMembers(s, j + 1, << >>)
          [] c = "[" ->
               IF CharAt(s, SkipWs(s, j + 1)) = "]"
               THEN ParseOk(JsArr(<< >>), SkipWs(s, j + 1) + 1)
               ELSE ParseElements(s, j + 1, << >>)
          [] c = "\"" -> ParseString(s, j)
          [] c = "-" \/ IsDigit(c) -> ParseNumber(s, j)
          [] c = "t" -> IF WordAt(s, j, <<"t", "r", "u", "e">>)
                        THEN ParseOk(JsBool(TRUE), j + 4) ELSE ParseFail
          [] c = "f" -> IF WordAt(s, j, <<"f", "a", "l", "s", "e">>)
                        THEN ParseOk(JsBool(FALSE), j + 5) ELSE ParseFail
          [] c = "n" -> IF WordAt(s, j, <<"n", "u", "l", "l">>)
                        THEN ParseOk(JsNull, j + 4) ELSE ParseFail
          [] OTHER -> ParseFail

\* JSON.parse(s): [ok |-> FALSE] stands for the SyntaxError it throws
JSONParse(s) ==
    LET r == ParseValue(s, 1)
    IN  IF r.ok /\ SkipWs(s, r.pos) > Len(s)
        THEN [ok |-> TRUE, v |-> r.v]
        ELSE [ok |-> FALSE, v |-> JsUndefined]

-----------------------------------------------------------------------------
(* JSON.stringify(value, null, gap)                                         *)

RECURSIVE IntToChars(_)
\* the decimal digits of n >= 0
IntToChars(n) ==
    IF n < 10 THEN <<DigitChars[n + 1]>>
    ELSE IntToChars(n \div 10) \o <<DigitChars[(n % 10) + 1]>>

Repeat(c, n) == [i \in 1..n |-> c]

\* Number.prototype.toString of m * 10^e, in the range written without an exponent
NumToChars(m, e) ==
    LET ds   == IntToChars(IF m < 0 THEN 0 - m ELSE m)
        sign == IF m < 0 THEN <<"-">> ELSE << >>
    IN  IF e >= 0 THEN sign \o ds \o Repeat("0", e)
        ELSE IF Len(ds) > 0 - e
             THEN sign \o SubSeq(ds, 1, Len(ds) + e) \o <<".">> \o SubSeq(ds, Len(ds) + e + 1, Len(ds))
             ELSE sign \o <<"0", ".">> \o Repeat("0", (0 - e) - Len(ds)) \o ds

QuoteChar(c) ==
    CASE c = "\"" -> <<"\\", "\"">>
      [] c = "\\" -> <<"\\", "\\">>
      [] c = "\n" -> <<"\\", "n">>
      [] c = "\t" -> <<"\\", "t">>
      [] c = "\r" -> <<"\\", "r">>
      [] c = "\f" -> <<"\\", "f">>
      [] c = "\\b" -> <<"\\", "b">>
      [] OTHER    -> <<c>>

RECURSIVE QuoteChars(_)
QuoteChars(s) == IF s = << >> THEN << >> ELSE QuoteChar(Head(s)) \o QuoteChars(Tail(s))

Quote(s) == <<"\"">> \o QuoteChars(s) \o <<"\"">>

RECURSIVE Str(_, _, _)
\* the text of value v at nesting depth level, gap spaces of indentation per level
Str(v, gap, level) ==
    LET inner  == Repeat(" ", gap * (level + 1))
        outer  == Repeat(" ", gap * level)
        sep    == IF gap = 0 THEN <<",">> ELSE <<",", "\n">> \o inner
        open   == IF gap = 0 THEN << >> ELSE <<"\n">> \o inner
        close  == IF gap = 0 THEN << >> ELSE <<"\n">> \o outer
        colon  == IF gap = 0 THEN <<":">> ELSE <<":", " ">>
        shown  == SelectSeq(v.kids, LAMBDA p : p.v.t # "undefined")
        elems  == [i \in 1..Len(v.kids) |->
                     IF v.kids[i].v.t = "undefined" THEN <<"n", "u", "l", "l">>
                     ELSE Str(v.kids[i].v, gap, level + 1)]
        membs  == [i \in 1..Len(shown) |->
                     Quote(shown[i].k) \o colon \o Str(shown[i].v, gap, level + 1)]
    IN  CASE v.t = "null"    -> <<"n", "u", "l", "l">>
          [] v.t = "boolean" -> IF v.b THEN <<"t", "r", "u", "e">> ELSE <<"f", "a", "l", "s", "e">>
          [] v.t = "number"  -> NumToChars(v.m, v.e)
          [] v.t = "string"  -> Quote(v.s)
          [] v.t = "array"   -> IF elems = << >> THEN <<"[", "]">>
                                ELSE <<"[">> \o open \o Join(elems, sep) \o close \o <<"]">>
          [] v.t = "object"  -> IF membs = << >> THEN <<"{", "}">>
                                ELSE <<"{">> \o open \o Join(membs, sep) \o close \o <<"}">>

\* JSON.stringify(v, null, gap) of a value that is not undefined
JSONStringify(v, gap) == Str(v, gap, 0)

-----------------------------------------------------------------------------
(* The string literals of the source, as character sequences *)

\* the line prefixes and the keyword of processInput
FromPrefix == << "F", "r", "o", "m", ":" >>

ToPrefix == << "T", "o", ":" >>

SubjectPrefix == << "S", "u", "b", "j", "e", "c", "t", ":" >>

QuoteWord == << "q", "u", "o", "t", "e" >>

\* the values of classification.format and classification.intent
Json == << "j", "s", "o", "n" >>

Email == << "e", "m", "a", "i", "l" >>

Pdf == << "p", "d", "f" >>

Rfq == << "r", "f", "q" >>

Inquiry == << "i", "n", "q", "u", "i", "r", "y" >>

\* property names
KClassification == << "c", "l", "a", "s", "s", "i", "f", "i", "c", "a", "t", "i", "o", "n" >>

KFormat == << "f", "o", "r", "m", "a", "t" >>

KIntent == << "i", "n", "t", "e", "n", "t" >>

KProcessed == << "p", "r", "o", "c", "e", "s", "s", "e", "d" >>

KTimestamp == << "t", "i", "m", "e", "s", "t", "a", "m", "p" >>

KError == << "e", "r", "r", "o", "r" >>

KFrom == << "f", "r", "o", "m" >>

KSubject == << "s", "u", "b", "j", "e", "c", "t" >>

KBody == << "b", "o", "d", "y" >>

KFilename == << "f", "i", "l", "e", "n", "a", "m", "e" >>

KSize == << "s", "i", "z", "e" >>

KType == << "t", "y", "p", "e" >>

KName == << "n", "a", "m", "e" >>

\* the MIME type handleFileChange accepts, the message of the catch block
PdfMime == << "a", "p", "p", "l", "i", "c", "a", "t", "i", "o", "n", "/", "p", "d", "f" >>

FailedToProcess ==
    << "F", "a", "i", "l", "e", "d", " ", "t", "o", " ", "p", "r", "o", "c", "e", "s", "s",
       " ", "i", "n", "p", "u", "t" >>

\* the text of the 'Load Sample Email' button
SampleEmail ==
    << "F", "r", "o", "m", ":", " ", "j", "o", "h", "n", ".", "d", "o", "e", "@", "e", "x",
       "a", "m", "p", "l", "e", ".", "c", "o", "m", "\n", "T", "o", ":", " ", "s", "a", "l",
       "e", "s", "@", "c", "o", "m", "p", "a", "n", "y", ".", "c", "o", "m", "\n", "S", "u",
       "b", "j", "e", "c", "t", ":", " ", "R", "e", "q", "u", "e", "s", "t", " ", "f", "o",
       "r", " ", "Q", "u", "o", "t", "a", "t", "i", "o", "n", " ", "-", " ", "O", "f", "f",
       "i", "c", "e", " ", "S", "u", "p", "p", "l", "i", "e", "s", "\n", "\n", "H", "e", "l",
       "l", "o", ",", "\n", "\n", "W", "e", " ", "a", "r", "e", " ", "i", "n", "t", "e", "r",
       "e", "s", "t", "e", "d", " ", "i", "n", " ", "p", "u", "r", "c", "h", "a", "s", "i",
       "n", "g", " ", "o", "f", "f", "i", "c", "e", " ", "s", "u", "p", "p", "l", "i", "e",
       "s", " ", "f", "o", "r", " ", "o", "u", "r", " ", "n", "e", "w", " ", "b", "r", "a",
       "n", "c", "h", ".", "\n", "C", "o", "u", "l", "d", " ", "y", "o", "u", " ", "p", "l",
       "e", "a", "s", "e", " ", "p", "r", "o", "v", "i", "d", "e", " ", "a", " ", "q", "u",
       "o", "t", "a", "t", "i", "o", "n", " ", "f", "o", "r", " ", "t", "h", "e", " ", "f",
       "o", "l", "l", "o", "w", "i", "n", "g", " ", "i", "t", "e", "m", "s", ":", "\n", "\n",
       "-", " ", "2", "0", " ", "e", "r", "g", "o", "n", "o", "m", "i", "c", " ", "c", "h",
       "a", "i", "r", "s", "\n", "-", " ", "1", "0", " ", "h", "e", "i", "g", "h", "t", "-",
       "a", "d", "j", "u", "s", "t", "a", "b", "l", "e", " ", "d", "e", "s", "k", "s", "\n",
       "-", " ", "1", "5", " ", "d", "e", "s", "k", " ", "l", "a", "m", "p", "s", "\n", "\n",
       "W", "e", " ", "w", "o", "u", "l", "d", " ", "a", "p", "p", "r", "e", "c", "i", "a",
       "t", "e", " ", "a", " ", "r", "e", "s", "p", "o", "n", "s", "e", " ", "w", "i", "t",
       "h", "i", "n", " ", "t", "h", "e", " ", "n", "e", "x", "t", " ", "w", "e", "e", "k",
       ".", "\n", "\n", "B", "e", "s", "t", " ", "r", "e", "g", "a", "r", "d", "s", ",", "\n",
       "J", "o", "h", "n", " ", "D", "o", "e", "\n", "P", "r", "o", "c", "u", "r", "e", "m",
       "e", "n", "t", " ", "M", "a", "n", "a", "g", "e", "r", "\n", "A", "c", "m", "e", " ",
       "C", "o", "r", "p" >>

\* the email of the test 'processes email input correctly'
TestEmail ==
    << "F", "r", "o", "m", ":", " ", "j", "o", "h", "n", ".", "d", "o", "e", "@", "e", "x",
       "a", "m", "p", "l", "e", ".", "c", "o", "m", "\n", "T", "o", ":", " ", "s", "a", "l",
       "e", "s", "@", "c", "o", "m", "p", "a", "n", "y", ".", "c", "o", "m", "\n", "S", "u",
       "b", "j", "e", "c", "t", ":", " ", "R", "e", "q", "u", "e", "s", "t", " ", "f", "o",
       "r", " ", "Q", "u", "o", "t", "a", "t", "i", "o", "n", " ", "-", " ", "O", "f", "f",
       "i", "c", "e", " ", "S", "u", "p", "p", "l", "i", "e", "s", "\n", "\n", "H", "e", "l",
       "l", "o", ",", "\n", "\n", "W", "e", " ", "a", "r", "e", " ", "i", "n", "t", "e", "r",
       "e", "s", "t", "e", "d", " ", "i", "n", " ", "p", "u", "r", "c", "h", "a", "s", "i",
       "n", "g", " ", "o", "f", "f", "i", "c", "e", " ", "s", "u", "p", "p", "l", "i", "e",
       "s", "." >>

\* the names and strings of the sample order (the 'Load Sample JSON' button and the test)
KCustomer == << "c", "u", "s", "t", "o", "m", "e", "r" >>

AcmeCorp == << "A", "c", "m", "e", " ", "C", "o", "r", "p" >>

KOrderId == << "o", "r", "d", "e", "r", "_", "i", "d" >>

OrderId == << "O", "R", "D", "-", "1", "2", "3", "4", "5" >>

KItems == << "i", "t", "e", "m", "s" >>

KProduct == << "p", "r", "o", "d", "u", "c", "t" >>

WidgetA == << "W", "i", "d", "g", "e", "t", " ", "A" >>

WidgetB == << "W", "i", "d", "g", "e", "t", " ", "B" >>

KQuantity == << "q", "u", "a", "n", "t", "i", "t", "y" >>

KPrice == << "p", "r", "i", "c", "e" >>

KTotal == << "t", "o", "t", "a", "l" >>


-----------------------------------------------------------------------------
(* The texts the model feeds the program *)

\* lines of generated texts
LineBlank == << >>

LineFrom == << "F", "r", "o", "m", ":", " ", "a", "@", "b", ".", "c", "o", "m" >>

LineSubject == << "S", "u", "b", "j", "e", "c", "t", ":", " ", "H", "i" >>

LineHello == << "H", "e", "l", "l", "o", " ", "t", "h", "e", "r", "e" >>

LineTo == << "T", "o", ":", " ", "x" >>

LineLowerSubject == << "s", "u", "b", "j", "e", "c", "t", ":", " ", "Q", "U", "O", "T", "E" >>

LineIndentedFrom == << " ", "F", "r", "o", "m", ":", " ", "d" >>

LineFromPadded == << "F", "r", "o", "m", ":", "\t", "e", " " >>

LineBadJson == << "{", "b", "a", "d" >>
LineSubjectOnly == << "S", "u", "b", "j", "e", "c", "t", ":" >>

\* hand-written JSON-like texts, names and strings of generated documents, other files
TextPaddedJson == << " ", " ", "{", "\"", "a", "\"", ":", "1", "}" >>

TextTrailingJson == << "{", "\"", "a", "\"", ":", "1", "}", " ", "x" >>

TextDuplicateKey == << "{", "\"", "a", "\"", ":", "1", ",", "\"", "a", "\"", ":", "2", "}" >>

TextSpaces == << " ", " " >>

KNote == << "n", "o", "t", "e" >>

PleaseQuote == << "p", "l", "e", "a", "s", "e", " ", "q", "u", "o", "t", "e" >>

KA == << "a" >>

TextMime == << "t", "e", "x", "t", "/", "p", "l", "a", "i", "n" >>

PdfName == << "r", "f", "q", ".", "p", "d", "f" >>

TxtName == << "n", "o", "t", "e", "s", ".", "t", "x", "t" >>


\* the object both sample sources spell out: App.tsx 97-105 and the test, 179-187
SampleOrder ==
    JsObj(<< Prop(KCustomer, JsStr(AcmeCorp)),
             Prop(KOrderId, JsStr(OrderId)),
             Prop(KItems, JsArr(<<
                 JsObj(<< Prop(KProduct, JsStr(WidgetA)), Prop(KQuantity, JsNum(5, 0)),
                          Prop(KPrice, JsNum(1099, -2)) >>),
                 JsObj(<< Prop(KProduct, JsStr(WidgetB)), Prop(KQuantity, JsNum(3, 0)),
                          Prop(KPrice, JsNum(1599, -2)) >>) >>)),
             Prop(KTotal, JsNum(12992, -2)) >>)

\* documents a caller may serialise and hand over
JsonDocs ==
    { SampleOrder,
      JsObj(<< Prop(KA, JsNum(1, 0)) >>),
      JsObj(<< Prop(KNote, JsStr(PleaseQuote)) >>),
      JsObj(<< >>) }

\* JSON texts: the documents, compact (the test) and indented by 2 (the button), and
\* texts that only look like JSON
JsonTexts ==
    { JSONStringify(d, gap) : d \in JsonDocs, gap \in {0, 2} }
        \cup { TextPaddedJson, TextTrailingJson, TextDuplicateKey }

Lines ==
    { LineBlank, LineFrom, LineSubject, LineHello, LineTo, LineLowerSubject,
      LineIndentedFrom, LineFromPadded, LineBadJson, LineSubjectOnly }

\* every text of 1..MaxLines lines
LineTexts ==
    { Join(ls, <<"\n">>) : ls \in UNION { [1..n -> Lines] : n \in 1..MaxLines } }

\* the arguments the exported processInput is called with
ProcInputs == LineTexts \cup JsonTexts \cup { TestEmail, SampleEmail }

\* the texts typed or pasted into the textarea
TypedTexts ==
    { << >>, TextSpaces, LineBadJson, LineLowerSubject, TextPaddedJson,
      JSONStringify(JsObj(<< Prop(KNote, JsStr(PleaseQuote)) >>), 0),
      Join(<<LineFrom, LineSubject, LineHello>>, <<"\n">>) }

\* the files a file dialog may hand to handleFileChange
Files ==
    { JsObj(<< Prop(KName, JsStr(PdfName)), Prop(KSize, JsNum(2048, 0)), Prop(KType, JsStr(PdfMime)) >>),
      JsObj(<< Prop(KName, JsStr(TxtName)), Prop(KSize, JsNum(12, 0)), Prop(KType, JsStr(TextMime)) >>) }

-----------------------------------------------------------------------------
(* src/agents/processor.ts: the exported processInput *)

\* a variant of line 13 that trims first: input.trimStart().startsWith('{')
ClassifyFormatTrimmed(inp) ==
    IF StartsWith(TrimStart(inp), <<"{">>) THEN JsStr(Json) ELSE JsStr(Email)

\* line 13
ClassifyFormat(inp) == IF StartsWith(inp, <<"{">>) THEN JsStr(Json) ELSE JsStr(Email)

\* a variant of line 14 without toLowerCase
ClassifyIntentCaseSensitive(inp) ==
    IF Includes(inp, QuoteWord) THEN JsStr(Rfq) ELSE JsStr(Inquiry)

\* line 14
ClassifyIntent(inp) == IF Includes(ToLowerCase(inp), QuoteWord) THEN JsStr(Rfq) ELSE JsStr(Inquiry)

\* a variant of line 24 that takes the last "From:" line
ExtractFromLast(lines) ==
    LET hits == {i \in 1..Len(lines) : StartsWith(lines[i], FromPrefix)}
    IN  IF hits = {} THEN JsUndefined ELSE JsStr(Trim(Slice(lines[Max(hits)], 5)))

\* line 24: lines.find(l => l.startsWith('From:'))?.slice(5).trim()
ExtractFrom(lines) ==
    LET hit == FindPrefixed(lines, FromPrefix)
    IN  IF hit = 0 THEN JsUndefined ELSE JsStr(Trim(Slice(lines[hit], 5)))

\* line 25: lines.find(l => l.startsWith('Subject:'))?.slice(8).trim()
ExtractSubject(lines) ==
    LET hit == FindPrefixed(lines, SubjectPrefix)
    IN  IF hit = 0 THEN JsUndefined ELSE JsStr(Trim(Slice(lines[hit], 8)))

\* a variant of line 26 that blanks the header lines instead of dropping them
ExtractBodyBlanked(lines) ==
    JsStr(Join([i \in 1..Len(lines) |->
                   IF \/ StartsWith(lines[i], FromPrefix)
                      \/ StartsWith(lines[i], ToPrefix)
                      \/ StartsWith(lines[i], SubjectPrefix)
                   THEN << >> ELSE lines[i]],
               <<"\n">>))

\* a variant of line 26 that matches the prefixes in any letter case
ExtractBodyAnyCase(lines) ==
    JsStr(Join(SelectSeq(lines, LAMBDA l : /\ ~StartsWith(ToLowerCase(l), ToLowerCase(FromPrefix))
                                           /\ ~StartsWith(ToLowerCase(l), ToLowerCase(ToPrefix))
                                           /\ ~StartsWith(ToLowerCase(l), ToLowerCase(SubjectPrefix))),
               <<"\n">>))

\* line 26: lines.filter(l => !l.startsWith(...) && ...).join('\n')
ExtractBody(lines) ==
    JsStr(Join(SelectSeq(lines, LAMBDA l : /\ ~StartsWith(l, FromPrefix)
                                           /\ ~StartsWith(l, ToPrefix)
                                           /\ ~StartsWith(l, SubjectPrefix)),
               <<"\n">>))

\* new Date().toISOString(): the text of instant t, kept as the instant
Timestamp(t) == JsNum(t, 0)

\* what a call produced
Idle == [state |-> "idle", value |-> JsUndefined]

Returned(v) == [state |-> "returned", value |-> v]

Threw == [state |-> "threw", value |-> JsUndefined]

\* a variant of processInput that reads a text JSON.parse rejects as an email
processInputFallback(inp, t) ==
    LET classification ==
            JsObj(<< Prop(KFormat, ClassifyFormat(inp)), Prop(KIntent, ClassifyIntent(inp)) >>)
        parsed == JSONParse(inp)
        lines  == Split(inp, "\n")
        email  == JsObj(<< Prop(KFrom, ExtractFrom(lines)),
                           Prop(KSubject, ExtractSubject(lines)),
                           Prop(KBody, ExtractBody(lines)) >>)
        done(processed) ==
            Returned(JsObj(<< Prop(KClassification, classification),
                              Prop(KProcessed, processed),
                              Prop(KTimestamp, Timestamp(t)) >>))
    IN  IF Get(classification, KFormat) = JsStr(Json) /\ parsed.ok
        THEN done(parsed.v)
        ELSE done(email)

\* a variant of processInput that hands a JSON text over unparsed
processInputUnparsed(inp, t) ==
    LET classification ==
            JsObj(<< Prop(KFormat, ClassifyFormat(inp)), Prop(KIntent, ClassifyIntent(inp)) >>)
        parsed == JSONParse(inp)
        lines  == Split(inp, "\n")
        email  == JsObj(<< Prop(KFrom, ExtractFrom(lines)),
                           Prop(KSubject, ExtractSubject(lines)),
                           Prop(KBody, ExtractBody(lines)) >>)
        done(processed) ==
            Returned(JsObj(<< Prop(KClassification, classification),
                              Prop(KProcessed, processed),
                              Prop(KTimestamp, Timestamp(t)) >>))
    IN  IF Get(classification, KFormat) = JsStr(Json)
        THEN IF parsed.ok THEN done(JsStr(inp)) ELSE Threw
        ELSE done(email)

\* processInput(inp), called at instant t
processInput(inp, t) ==
    LET classification ==
            JsObj(<< Prop(KFormat, ClassifyFormat(inp)), Prop(KIntent, ClassifyIntent(inp)) >>)
        parsed == JSONParse(inp)
        lines  == Split(inp, "\n")
        email  == JsObj(<< Prop(KFrom, ExtractFrom(lines)),
                           Prop(KSubject, ExtractSubject(lines)),
                           Prop(KBody, ExtractBody(lines)) >>)
        done(processed) ==
            Returned(JsObj(<< Prop(KClassification, classification),
                              Prop(KProcessed, processed),
                              Prop(KTimestamp, Timestamp(t)) >>))
    IN  IF Get(classification, KFormat) = JsStr(Json)
        THEN IF parsed.ok THEN done(parsed.v) ELSE Threw
        ELSE done(email)

-----------------------------------------------------------------------------
(* src/App.tsx: the App component *)

\* line 15
AppFormat(inp, file) ==
    IF StartsWith(inp, <<"{">>) THEN JsStr(Json)
    ELSE IF Get(file, KType) = JsStr(PdfMime) THEN JsStr(Pdf)
    ELSE JsStr(Email)

\* line 16
AppIntent(inp) == IF Includes(ToLowerCase(inp), QuoteWord) THEN JsStr(Rfq) ELSE JsStr(Inquiry)

\* a variant of line 33 without trim
AppFromUntrimmed(lines) ==
    LET hit == FindPrefixed(lines, FromPrefix)
    IN  IF hit = 0 THEN JsUndefined ELSE JsStr(Slice(lines[hit], 5))

\* line 33
AppFrom(lines) ==
    LET hit == FindPrefixed(lines, FromPrefix)
    IN  IF hit = 0 THEN JsUndefined ELSE JsStr(Trim(Slice(lines[hit], 5)))

\* line 34
AppSubject(lines) ==
    LET hit == FindPrefixed(lines, SubjectPrefix)
    IN  IF hit = 0 THEN JsUndefined ELSE JsStr(Trim(Slice(lines[hit], 8)))

\* line 35
AppBody(lines) ==
    JsStr(Join(SelectSeq(lines, LAMBDA l : /\ ~StartsWith(l, FromPrefix)
                                           /\ ~StartsWith(l, ToPrefix)
                                           /\ ~StartsWith(l, SubjectPrefix)),
               <<"\n">>))

\* line 46: what the catch block stores
ErrorResult == JsObj(<< Prop(KError, JsStr(FailedToProcess)) >>)

\* lines 12-47: the try block and its catch, as the value result ends with
AppResult(inp, file, t) ==
    LET classification ==
            JsObj(<< Prop(KFormat, AppFormat(inp, file)), Prop(KIntent, AppIntent(inp)) >>)
        format == Get(classification, KFormat)
        parsed == JSONParse(inp)
        lines  == Split(inp, "\n")
        processedResult ==
            IF format = JsStr(Json) THEN parsed.v
            ELSE IF format = JsStr(Pdf) /\ file # JsNull
            THEN JsObj(<< Prop(KFilename, Get(file, KName)),
                          Prop(KSize, Get(file, KSize)),
                          Prop(KType, Get(file, KType)) >>)
            ELSE JsObj(<< Prop(KFrom, AppFrom(lines)),
                          Prop(KSubject, AppSubject(lines)),
                          Prop(KBody, AppBody(lines)) >>)
    IN  IF format = JsStr(Json) /\ ~parsed.ok
        THEN ErrorResult
        ELSE JsObj(<< Prop(KClassification, classification),
                      Prop(KProcessed, processedResult),
                      Prop(KTimestamp, Timestamp(t)) >>)

NotRun == [ran |-> FALSE, input |-> << >>, selectedFile |-> JsNull]

\* lines 5-8: the useState initial values
Init ==
    /\ input = << >>
    /\ result = JsNull
    /\ loading = FALSE
    /\ selectedFile = JsNull
    /\ last = NotRun
    /\ now = 0
    /\ arg = << >>
    /\ ret = Idle

\* lines 76-79, 81: the textarea's onChange; the textarea is disabled while a file
\* is selected
Type(text) ==
    /\ selectedFile = JsNull
    /\ input' = text
    /\ selectedFile' = JsNull
    /\ UNCHANGED <<result, loading, last, now, arg, ret>>

\* lines 51-57: file is event.target.files?.[0], undefined for an empty list
handleFileChange(file) ==
    /\ IF file # JsUndefined /\ Get(file, KType) = JsStr(PdfMime)
       THEN selectedFile' = file /\ input' = << >>
       ELSE UNCHANGED <<selectedFile, input>>
    /\ UNCHANGED <<result, loading, last, now, arg, ret>>

\* lines 96-105
LoadSampleJSON ==
    /\ input' = JSONStringify(SampleOrder, 2)
    /\ UNCHANGED <<result, loading, selectedFile, last, now, arg, ret>>

\* lines 111-130
LoadSampleEmail ==
    /\ input' = SampleEmail
    /\ UNCHANGED <<result, loading, selectedFile, last, now, arg, ret>>

\* lines 136-140: an alert, no state change
LoadSamplePDF == UNCHANGED vars

\* a variant of lines 10-49 without the catch: the error leaves the handler before
\* setResult and setLoading(false)
ProcessUncaught ==
    /\ ~(loading \/ (Trim(input) = << >> /\ selectedFile = JsNull))
    /\ IF AppFormat(input, selectedFile) = JsStr(Json) /\ ~JSONParse(input).ok
       THEN result' = result /\ loading' = TRUE
       ELSE result' = AppResult(input, selectedFile, now) /\ loading' = FALSE
    /\ last' = [ran |-> TRUE, input |-> input, selectedFile |-> selectedFile]
    /\ UNCHANGED <<input, selectedFile, now, arg, ret>>

\* lines 10-49, run by the button of lines 148-150.  The handler has no await: it
\* runs to its end within the click, and React commits setLoading(true), setResult
\* and setLoading(false) as one update.
Process ==
    /\ ~(loading \/ (Trim(input) = << >> /\ selectedFile = JsNull))
    /\ result' = AppResult(input, selectedFile, now)
    /\ loading' = FALSE
    /\ last' = [ran |-> TRUE, input |-> input, selectedFile |-> selectedFile]
    /\ UNCHANGED <<input, selectedFile, now, arg, ret>>

\* time passes
Tick ==
    /\ now < MaxClock
    /\ now' = now + 1
    /\ UNCHANGED <<input, result, loading, selectedFile, last, arg, ret>>

Next ==
    \/ \E text \in TypedTexts : Type(text)
    \/ \E file \in Files \cup {JsUndefined} : handleFileChange(file)
    \/ LoadSampleJSON
    \/ LoadSampleEmail
    \/ LoadSamplePDF
    \/ Process
    \/ Tick

Spec == Init /\ [][Next]_vars

-----------------------------------------------------------------------------
(* The exported processInput, called once on each argument *)

InitProc ==
    /\ input = << >>
    /\ result = JsNull
    /\ loading = FALSE
    /\ selectedFile = JsNull
    /\ last = NotRun
    /\ now = 0
    /\ arg \in ProcInputs
    /\ ret = Idle

Call ==
    /\ ret = Idle
    /\ ret' = processInput(arg, now)
    /\ UNCHANGED <<input, result, loading, selectedFile, last, now, arg>>

NextProc == Call \/ Tick

SpecProc == InitProc /\ [][NextProc]_vars

-----------------------------------------------------------------------------
(* Claims about the exported processInput, checked under SpecProc *)

RetClassification == Get(ret.value, KClassification)

RetProcessed == Get(ret.value, KProcessed)

\* position i of text s starts the keyword "quote", letter case aside
QuoteAt(s, i) == \A k \in 1..5 : i + k <= Len(s) /\ ToLowerChar(s[i + k]) = QuoteWord[k]

\* line l begins with the characters of prefix p, compared one by one
BeginsWith(l, p) == Len(l) >= Len(p) /\ \A k \in 1..Len(p) : l[k] = p[k]

IsHeader(l) == BeginsWith(l, FromPrefix) \/ BeginsWith(l, ToPrefix) \/ BeginsWith(l, SubjectPrefix)

\* the value of the first line of ls with prefix p: the line without its first
\* Len(p) characters, white space trimmed; undefined when no line has the prefix
FirstValue(ls, p) ==
    IF \A i \in 1..Len(ls) : ~BeginsWith(ls[i], p) THEN JsUndefined
    ELSE LET i == CHOOSE n \in 1..Len(ls) :
                      BeginsWith(ls[n], p) /\ \A j \in 1..(n - 1) : ~BeginsWith(ls[j], p)
         IN  JsStr(Trim(SubSeq(ls[i], Len(p) + 1, Len(ls[i]))))

\* C1 as the spec states it: the format is "json" exactly when the input with its
\* leading white space removed begins with '{', and "email" otherwise.
C1_TrimmedFormat ==
    /\ ret.state = "returned" =>
           Get(RetClassification, KFormat) =
               IF StartsWith(TrimStart(arg), <<"{">>) THEN JsStr(Json) ELSE JsStr(Email)
    /\ ret.state = "threw" => StartsWith(TrimStart(arg), <<"{">>)

\* C1, amended: the format is "json" exactly when the input itself, nothing
\* removed, begins with '{', and "email" otherwise; only a "json" input can throw.
C1_Format ==
    /\ ret.state = "returned" =>
           Get(RetClassification, KFormat) =
               IF Len(arg) >= 1 /\ arg[1] = "{" THEN JsStr(Json) ELSE JsStr(Email)
    /\ ret.state = "threw" => Len(arg) >= 1 /\ arg[1] = "{"

C1_Witness ==
    /\ ret.state = "returned"
    /\ arg = TextPaddedJson
    /\ Get(RetClassification, KFormat) = JsStr(Email)

\* C2: whenever processInput returns, the intent is "rfq" if the lowercased input
\* contains "quote" and "inquiry" otherwise, whatever the format.
C2_Intent ==
    ret.state = "returned" =>
        Get(RetClassification, KIntent) =
            IF \E i \in 0..Len(arg) : QuoteAt(arg, i) THEN JsStr(Rfq) ELSE JsStr(Inquiry)

C2_Witness ==
    /\ ret.state = "returned"
    /\ Get(RetClassification, KFormat) = JsStr(Json)
    /\ Get(RetClassification, KIntent) = JsStr(Rfq)

\* C3: an input that begins with '{' and is not valid JSON makes processInput
\* throw: no result is returned, by the email path or otherwise.
C3_ParseErrorPropagates ==
    (ret.state # "idle" /\ StartsWith(arg, <<"{">>) /\ ~JSONParse(arg).ok) => ret = Threw

C3_Witness ==
    /\ ret = Threw
    /\ arg = Join(<<LineBadJson, LineFrom, LineHello>>, <<"\n">>)

\* C4: an input that begins with '{' and is valid JSON is returned with format
\* "json" and the parsed document as processed: a serialised document comes back
\* as the document, each top-level field with its value.
C4_JsonProcessed ==
    (ret.state # "idle" /\ StartsWith(arg, <<"{">>) /\ JSONParse(arg).ok) =>
        /\ ret.state = "returned"
        /\ Get(RetClassification, KFormat) = JsStr(Json)
        /\ RetProcessed = JSONParse(arg).v
        /\ \A d \in JsonDocs : \A gap \in {0, 2} :
               arg = JSONStringify(d, gap) =>
                   /\ RetProcessed = d
                   /\ \A i \in 1..Len(d.kids) : Get(RetProcessed, d.kids[i].k) = d.kids[i].v

C4_Witness ==
    /\ ret.state = "returned"
    /\ arg = JSONStringify(SampleOrder, 0)
    /\ Get(RetClassification, KFormat) = JsStr(Json)
    /\ Get(RetProcessed, KCustomer) = JsStr(AcmeCorp)

\* C5: for an input classified "email", from is the trimmed text after the 5
\* characters "From:" of the first line with that prefix, and undefined when there
\* is none; the call returns all the same, subject and body following their rules.
C5_From ==
    (ret.state # "idle" /\ ~StartsWith(arg, <<"{">>)) =>
        /\ ret.state = "returned"
        /\ Get(RetProcessed, KFrom) = FirstValue(Split(arg, "\n"), FromPrefix)
        /\ Get(RetProcessed, KSubject) = FirstValue(Split(arg, "\n"), SubjectPrefix)
        /\ Get(RetProcessed, KBody).t = "string"

C5_Witness ==
    /\ ret.state = "returned"
    /\ arg = Join(<<LineHello, LineFromPadded, LineFrom>>, <<"\n">>)
    /\ Get(RetProcessed, KFrom) = JsStr(<<"e">>)
    /\ Get(RetProcessed, KSubject) = JsUndefined

ScenarioC == Join(<<LineFrom, LineSubject, LineHello>>, <<"\n">>)

MailAB == << "a", "@", "b", ".", "c", "o", "m" >>
BodyWithBlank == << "\n", "H", "e", "l", "l", "o", " ", "t", "h", "e", "r", "e" >>

\* C6 as the spec states it: the three lines "From: a@b.com", "Subject: Hi",
\* "Hello there" give {from: "a@b.com", subject: "Hi", body: "\nHello there"}.
C6_BodyWithBlank ==
    (ret.state # "idle" /\ arg = ScenarioC) =>
        /\ ret.state = "returned"
        /\ RetProcessed = JsObj(<< Prop(KFrom, JsStr(MailAB)),
                                   Prop(KSubject, JsStr(<<"H", "i">>)),
                                   Prop(KBody, JsStr(BodyWithBlank)) >>)

\* C6, amended: the three lines give {from: "a@b.com", subject: "Hi",
\* body: "Hello there"}: the body has no newline before "Hello there".
C6_Body ==
    (ret.state # "idle" /\ arg = ScenarioC) =>
        /\ ret.state = "returned"
        /\ RetProcessed = JsObj(<< Prop(KFrom, JsStr(MailAB)),
                                   Prop(KSubject, JsStr(<<"H", "i">>)),
                                   Prop(KBody, JsStr(LineHello)) >>)

C6_Witness ==
    /\ ret.state = "returned"
    /\ arg = ScenarioC
    /\ Get(RetProcessed, KBody) = JsStr(LineHello)

\* C8: for an input classified "email", body is the lines that begin with none of
\* "From:", "To:", "Subject:" (exact case, from the line's first character), in
\* their order, blank lines kept, joined by newlines; every other line is gone.
C8_BodyLines ==
    (ret.state # "idle" /\ ~StartsWith(arg, <<"{">>)) =>
        LET ls     == Split(arg, "\n")
            kept   == {i \in 1..Len(ls) : ~IsHeader(ls[i])}
            nth(k) == CHOOSE i \in kept : Cardinality({j \in kept : j <= i}) = k
            body   == Get(RetProcessed, KBody).s
        IN  /\ ret.state = "returned"
            /\ IF kept = {} THEN body = << >>
               ELSE /\ Len(Split(body, "\n")) = Cardinality(kept)
                    /\ \A k \in 1..Cardinality(kept) : Split(body, "\n")[k] = ls[nth(k)]

C8_Witness ==
    /\ ret.state = "returned"
    /\ arg = Join(<<LineIndentedFrom, LineTo, LineLowerSubject>>, <<"\n">>)
    /\ Get(RetProcessed, KBody) = JsStr(Join(<<LineIndentedFrom, LineLowerSubject>>, <<"\n">>))

-----------------------------------------------------------------------------
(* Claims about the App component, checked under Spec *)

\* C7: a Process run on text that begins with '{' and is not valid JSON ends with
\* result = {error: 'Failed to process input'} and loading = false; loading is
\* never left true.
C7_ErrorCaught ==
    /\ ~loading
    /\ (last.ran /\ StartsWith(last.input, <<"{">>) /\ ~JSONParse(last.input).ok) =>
           result = ErrorResult

C7_Witness ==
    /\ last.ran
    /\ last.input = LineBadJson
    /\ result = ErrorResult
    /\ ~loading

\* C9: a non-empty text and a selected PDF file are never both set, and a Process
\* run with a PDF selected is classified "pdf".
C9_TextXorFile ==
    /\ ~(input # << >> /\ selectedFile # JsNull)
    /\ (last.ran /\ last.selectedFile # JsNull) =>
           Get(Get(result, KClassification), KFormat) = JsStr(Pdf)

\* C10: a Process run with no PDF selected stores what the exported processInput
\* returns on the same text (classification and processed record), and stores the
\* failure indicator exactly when processInput throws.
C10_AppAgrees ==
    (last.ran /\ last.selectedFile = JsNull) =>
        LET m == processInput(last.input, 0)
        IN  IF m = Threw THEN result = ErrorResult
            ELSE /\ Get(result, KClassification) = Get(m.value, KClassification)
                 /\ Get(result, KProcessed) = Get(m.value, KProcessed)

C10_Witness ==
    /\ last.ran
    /\ last.selectedFile = JsNull
    /\ last.input = ScenarioC
    /\ Get(Get(result, KProcessed), KFrom) = JsStr(MailAB)
    /\ Get(result, KProcessed) = Get(processInput(ScenarioC, 0).value, KProcessed)
=============================================================================
